---- MODULE Spec2Model ----
(***************************************************************************)
(* pullem: walk a directory tree, fast-forward every clean repository that *)
(* sits on its branch, optionally prune local branches without upstream.   *)
(* Model of main.go.  Strings are sequences of one-character strings, so   *)
(* that TrimSpace, Split, HasPrefix and ToLower are computed as the Go     *)
(* library computes them.  Every git subprocess call is one step.          *)
(***************************************************************************)
EXTENDS Integers, Sequences, FiniteSets, TLC

(* ------------------------------ bounds ---------------------------------- *)

\* depth of the directory tree below the root
MaxDepth == 1
\* answers read by one confirmation prompt before only a final one is taken
MaxPrompts == 2
\* local branches in a branch listing
MaxRefs == 3

\* entry names inside every directory that is not at MaxDepth
Names == {"a", "b"}

(* ------------------------------ strings --------------------------------- *)

RefsHeads == <<"r","e","f","s","/","h","e","a","d","s","/">>
Master == <<"m","a","s","t","e","r">>
Main == <<"m","a","i","n">>
Mainline == <<"m","a","i","n","l","i","n","e">>
Masterfix == <<"m","a","s","t","e","r","f","i","x">>
Dev == <<"d","e","v">>
OriginRef(b) == <<"r","e","f","s","/","r","e","m","o","t","e","s","/","o","r","i","g","i","n","/">> \o b

\* unicode.IsSpace on the characters that occur
IsSpace(c) == c \in {" ", "\n", "\t", "\r"}

\* strings.TrimSpace: the string from its first to its last non-space character
TrimSpace(s) ==
    LET keep == { i \in 1..Len(s) : ~IsSpace(s[i]) } IN
    IF keep = {} THEN <<>>
    ELSE SubSeq(s, CHOOSE i \in keep : \A j \in keep : i <= j,
                   CHOOSE i \in keep : \A j \in keep : j <= i)

\* strings.HasPrefix
HasPrefix(s, p) == Len(s) >= Len(p) /\ SubSeq(s, 1, Len(p)) = p

\* strings.Split with a one-character separator: one part more than there are
\* separators, the k-th part lying between the (k-1)-th and the k-th separator
Split(s, sep) ==
    LET at == { i \in 1..Len(s) : s[i] = sep }
        Nth(k) == IF k = 0 THEN 0
                  ELSE IF k > Cardinality(at) THEN Len(s) + 1
                  ELSE CHOOSE i \in at : Cardinality({ j \in at : j <= i }) = k
    IN  [k \in 1..(Cardinality(at) + 1) |-> SubSeq(s, Nth(k - 1) + 1, Nth(k) - 1)]

\* unicode.ToLower on the letters that occur
LowerChar(c) ==
    CASE c = "Y" -> "y" [] c = "E" -> "e" [] c = "S" -> "s"
      [] c = "N" -> "n" [] c = "O" -> "o" [] OTHER -> c

\* strings.ToLower
ToLower(s) == [i \in 1..Len(s) |-> LowerChar(s[i])]

(* ------------------------ the git subprocess ---------------------------- *)

\* A repository: whether HEAD is detached, the branch HEAD points to, the
\* branch origin/HEAD names (the default branch of the remote), and the
\* output of `git status --porcelain`.
StatusOutputs == { <<>>, <<" ","M"," ","f","\n">>, <<"?","?"," ","g","\n">> }

Repos ==
    { [detached |-> TRUE, head |-> <<>>, originHead |-> oh, status |-> st] :
        oh \in {Master, Dev}, st \in StatusOutputs }
    \cup
    { [detached |-> FALSE, head |-> h, originHead |-> oh, status |-> st] :
        h \in {Master, Dev}, oh \in {Master, Dev}, st \in StatusOutputs }

NoRepo == [detached |-> TRUE, head |-> <<>>, originHead |-> <<>>, status |-> <<>>]

\* cmd.Output(): standard output and whether the exit status was non-zero.
\* `fail` is a failure to run the command that is not one of the repository.
GitSymbolicRefShort(r, fail) ==
    IF fail \/ r.detached THEN [out |-> <<>>, err |-> TRUE]
    ELSE [out |-> r.head \o <<"\n">>, err |-> FALSE]

GitSymbolicRefQuiet(r, fail) ==
    IF fail \/ r.detached THEN [out |-> <<>>, err |-> TRUE]
    ELSE [out |-> RefsHeads \o r.head \o <<"\n">>, err |-> FALSE]

GitStatus(r, fail) ==
    IF fail THEN [out |-> <<>>, err |-> TRUE] ELSE [out |-> r.status, err |-> FALSE]

\* `git for-each-ref --format "%(refname) %(upstream)" refs/heads`: one line
\* per local branch, the upstream field empty when none is configured.
RECURSIVE RefLines(_)
RefLines(listing) ==
    IF listing = <<>> THEN <<>>
    ELSE RefsHeads \o Head(listing).name \o <<" ">> \o Head(listing).upstream
         \o <<"\n">> \o RefLines(Tail(listing))

GitForEachRef(listing, fail) ==
    IF fail THEN [out |-> <<>>, err |-> TRUE] ELSE [out |-> RefLines(listing), err |-> FALSE]

(* ------------------------- functions of main.go ------------------------- *)

\* every directory taken for a repository
pathExistsAlways(lstat) == [val |-> TRUE, err |-> lstat = "error"]

\* os.Lstat answers "ok", "notexist" or "error"
pathExists(lstat) ==
    IF lstat = "ok" THEN [val |-> TRUE, err |-> FALSE]
    ELSE IF lstat = "notexist" THEN [val |-> FALSE, err |-> FALSE]
    ELSE [val |-> FALSE, err |-> TRUE]

\* the answer compared as typed, not lower-cased, and anything but a no taken for a yes
askForConfirmationLoose(response) ==
    LET r == TrimSpace(response) IN
    IF r = <<"n">> \/ r = <<"n","o">> THEN "false"
    ELSE "true"

\* one reading of the loop of askForConfirmation: the answer it gives, or "again"
askForConfirmation(response) ==
    LET r == ToLower(TrimSpace(response)) IN
    IF r = <<"y">> \/ r = <<"y","e","s">> THEN "true"
    ELSE IF r = <<"n">> \/ r = <<"n","o">> THEN "false"
    ELSE "again"

defaultBranch(res) ==
    IF res.err THEN [val |-> <<>>, err |-> TRUE]
    ELSE [val |-> TrimSpace(res.out), err |-> FALSE]

isOnDefault(res, branch) ==
    IF res.err THEN [val |-> FALSE, err |-> TRUE]
    ELSE [val |-> TrimSpace(res.out) = RefsHeads \o branch, err |-> FALSE]

\* the check of isClean dropped: every tree counts as clean
isCleanAlways(res) == [val |-> TRUE, err |-> res.err]

isClean(res) ==
    IF res.err THEN [val |-> FALSE, err |-> TRUE]
    ELSE [val |-> TrimSpace(res.out) = <<>>, err |-> FALSE]

\* the body of the loop over the lines: the branch name the line adds, if any
RefOfLine(rawline, branch) ==
    LET line == TrimSpace(rawline)
        parts == Split(line, " ")
    IN  IF line = <<>> \/ HasPrefix(line, RefsHeads \o Master)
           \/ HasPrefix(line, RefsHeads \o branch)
        THEN <<>>
        ELSE IF Len(parts) = 2 THEN <<>>
        ELSE IF ~HasPrefix(parts[1], RefsHeads) THEN <<>>
        ELSE << SubSeq(parts[1], Len(RefsHeads) + 1, Len(parts[1])) >>

RECURSIVE RefsOfLines(_, _)
RefsOfLines(lines, branch) ==
    IF lines = <<>> THEN <<>>
    ELSE RefOfLine(Head(lines), branch) \o RefsOfLines(Tail(lines), branch)

localRefs(res, branch) ==
    IF res.err THEN [val |-> <<>>, err |-> TRUE]
    ELSE [val |-> RefsOfLines(Split(TrimSpace(res.out), "\n"), branch), err |-> FALSE]

\* filepath.Rel(root, path) for a path below the absolute root
Root == <<"/", "w">>
Rel(root, p) == SubSeq(p, Len(root) + 1, Len(p))

(* ------------------------------ state ----------------------------------- *)

VARIABLES
    cleanBranches,  \* the -prune flag
    todo,           \* filepath.Walk: the paths still to walk, in walk order
    path,           \* the path handed to the visitor
    entry,          \* what the file system holds at path: kind, and Lstat of path/.git
    err,            \* the error filepath.Walk hands to the visitor with path
    pc,             \* where the run stands
    ret,            \* what processDir returned for path
    repo,           \* the repository at path, once .git was found
    branch,         \* processDir's local `branch`
    out,            \* the lines processDir printed for path
    cmds,           \* the git subprocesses run for path, in order
    lrfs,           \* processDir's local `lrfs`
    idx,            \* position of the prune loop in lrfs
    tries,          \* answers the current prompt has rejected
    answer,         \* the last answer read by the current prompt, trimmed and lower-cased
    offered,        \* the branches a confirmation prompt was printed for, in order
    gitDirs,        \* the directories found to hold a .git entry so far
    fatal,          \* log.Fatal: "none", "walk" (main) or "stdin" (askForConfirmation)
    refsIn          \* the branch listing given to localRefs in SpecRefs

vars == << cleanBranches, todo, path, entry, err, pc, ret, repo, branch, out, cmds,
           lrfs, idx, tries, answer, offered, gitDirs, fatal, refsIn >>

walkVars == << todo, path, entry, err, gitDirs, fatal >>

NoEntry == [kind |-> "nil", dotGit |-> "notexist"]

\* names read by readDirNames, sorted; directories at MaxDepth are empty
NameSeq == <<"a", "b">>
Children(p) ==
    IF Len(p) - Len(Root) < MaxDepth
    THEN [i \in 1..Len(NameSeq) |-> Append(p, NameSeq[i])]
    ELSE <<>>

IsProperPrefix(p, q) == Len(p) < Len(q) /\ SubSeq(q, 1, Len(p)) = p

Line(mark, tab, subject, text) ==
    [mark |-> mark, tab |-> tab, subject |-> subject, text |-> text]

\* one subprocess call: the command, the branch it names (for symbolic-ref
\* --short the branch it answers), whether git exited zero, and whether the
\* function of main.go that ran it returned true, or no error
Cmd(name, arg, ok, val) == [cmd |-> name, arg |-> arg, ok |-> ok, val |-> val]

Responses ==
    { <<"y","\n">>, <<"Y","E","S","\n">>, <<" ","n"," ","\n">>, <<"N","o","\n">>,
      <<"m","a","y","b","e","\n">> }

RefNames == <<Dev, Main, Mainline, Master, Masterfix>>

\* branch listings as git prints them: sorted by name, no name twice
RECURSIVE ListingsFrom(_, _)
ListingsFrom(i, n) ==
    IF n = 0 \/ i > Len(RefNames) THEN { <<>> }
    ELSE ListingsFrom(i + 1, n)
         \cup { <<[name |-> RefNames[i], upstream |-> u]>> \o l :
                  u \in { <<>>, OriginRef(RefNames[i]) }, l \in ListingsFrom(i + 1, n - 1) }

Listings == ListingsFrom(1, MaxRefs)

\* the listings of a repository whose HEAD is on branch b
ListingsWith(b) == { l \in Listings : \E i \in DOMAIN l : l[i].name = b }

Init ==
    /\ cleanBranches \in BOOLEAN
    /\ todo = << Root >>
    /\ path = <<>>
    /\ entry = NoEntry
    /\ err = FALSE
    /\ pc = "walk"
    /\ ret = "none"
    /\ repo = NoRepo
    /\ branch = <<>>
    /\ out = <<>>
    /\ cmds = <<>>
    /\ lrfs = <<>>
    /\ idx = 0
    /\ tries = 0
    /\ answer = <<>>
    /\ offered = <<>>
    /\ gitDirs = {}
    /\ fatal = "none"
    /\ refsIn = <<>>

(* --------------------------- filepath.Walk ------------------------------ *)

\* Walk takes the next path: Lstat it, and for a directory read its names;
\* an error of either is handed to the visitor with the path.
WalkNext ==
    /\ pc = "walk" /\ todo # <<>>
    /\ path' = Head(todo)
    /\ todo' = Tail(todo)
    /\ \E kind \in {"dir", "file", "nil"}, dg \in {"ok", "notexist", "error"}, rd \in BOOLEAN :
         /\ kind # "dir" => dg = "notexist" /\ ~rd
         /\ entry' = [kind |-> kind, dotGit |-> dg]
         /\ err' = (kind = "nil" \/ rd)
    /\ pc' = "visit"
    /\ ret' = "none" /\ repo' = NoRepo /\ branch' = <<>> /\ out' = <<>> /\ cmds' = <<>>
    /\ lrfs' = <<>> /\ idx' = 0 /\ tries' = 0 /\ answer' = <<>> /\ offered' = <<>>
    /\ gitDirs' = IF entry'.dotGit = "ok" THEN gitDirs \cup {path'} ELSE gitDirs
    /\ UNCHANGED << cleanBranches, fatal, refsIn >>

\* Walk reads the visitor's result: an error ends the walk and main calls
\* log.Fatal; SkipDir on a directory leaves its names unwalked; SkipDir on a
\* file leaves the rest of its directory unwalked; nil on a directory walks
\* its names next.
WalkReturn ==
    /\ pc = "ret"
    /\ IF ret = "err"
       THEN todo' = <<>> /\ fatal' = "walk" /\ pc' = "done"
       ELSE /\ fatal' = fatal
            /\ pc' = "walk"
            /\ todo' = IF ret = "nil" /\ entry.kind = "dir" THEN Children(path) \o todo
                       ELSE IF ret = "SkipDir" /\ entry.kind = "file"
                       THEN SelectSeq(todo, LAMBDA q : SubSeq(q, 1, Len(q) - 1) # SubSeq(path, 1, Len(path) - 1))
                       ELSE todo
    /\ UNCHANGED << cleanBranches, path, entry, err, ret, repo, branch, out, cmds,
                    lrfs, idx, tries, answer, offered, gitDirs, refsIn >>

\* Walk returned nil: main returns
WalkDone ==
    /\ pc = "walk" /\ todo = <<>>
    /\ pc' = "done"
    /\ UNCHANGED << cleanBranches, todo, path, entry, err, ret, repo, branch, out, cmds,
                    lrfs, idx, tries, answer, offered, gitDirs, fatal, refsIn >>

(* ----------------------------- processDir ------------------------------- *)

loopVars == << lrfs, idx, tries, answer, offered >>

\* processDir returns nil where it should return SkipDir
ReturnNil(r, line) ==
    /\ ret' = "nil"
    /\ pc' = "ret"
    /\ out' = Append(out, line)

\* processDir returns r after printing line
Return(r, line) ==
    /\ ret' = r
    /\ pc' = "ret"
    /\ out' = Append(out, line)

\* processDir returns r and prints nothing
ReturnQuiet(r) ==
    /\ ret' = r
    /\ pc' = "ret"
    /\ out' = out

FailedProcessing == Line("fail", FALSE, Rel(Root, path), "failed processing")

\* the walker's error reported like a failed .git lookup
ClassifyErrorSkipped(e, kind, dotGit) ==
    IF e THEN "lookupError"
    ELSE IF kind # "dir" THEN "file"
    ELSE IF pathExists(dotGit).err THEN "lookupError"
    ELSE IF ~pathExists(dotGit).val THEN "plain"
    ELSE "repository"

\* lines 138-161: what processDir makes of the walker's error e, the kind of
\* the entry and the Lstat of its .git (Rel cannot fail for a path below the
\* absolute root)
Classify(e, kind, dotGit) ==
    LET isGitDir == pathExists(dotGit) IN
    IF e THEN "error"
    ELSE IF kind # "dir" THEN "file"
    ELSE IF isGitDir.err THEN "lookupError"
    ELSE IF ~isGitDir.val THEN "plain"
    ELSE "repository"

ProcessDir ==
    /\ pc = "visit"
    /\ LET c == Classify(err, entry.kind, entry.dotGit) IN
       IF c = "error" THEN ReturnQuiet("err") /\ UNCHANGED repo
       ELSE IF c = "file" THEN ReturnQuiet("nil") /\ UNCHANGED repo
       ELSE IF c = "lookupError" THEN Return("SkipDir", FailedProcessing) /\ UNCHANGED repo
       ELSE IF c = "plain" THEN ReturnQuiet("nil") /\ UNCHANGED repo
       ELSE /\ repo' \in Repos
            /\ pc' = "defaultBranch"
            /\ UNCHANGED << ret, out >>
    /\ UNCHANGED << cleanBranches, branch, cmds, loopVars, refsIn >>
    /\ UNCHANGED walkVars

\* lines 163-167
ProcessDirDefaultBranch ==
    /\ pc = "defaultBranch"
    /\ \E fail \in BOOLEAN :
         LET res == GitSymbolicRefShort(repo, fail)
             r == defaultBranch(res)
         IN  /\ cmds' = Append(cmds, Cmd("symbolic-ref --short", r.val, ~res.err, ~r.err))
             /\ IF r.err
                THEN Return("SkipDir", FailedProcessing) /\ UNCHANGED branch
                ELSE branch' = r.val /\ pc' = "isOnDefault" /\ UNCHANGED << ret, out >>
    /\ UNCHANGED << cleanBranches, repo, loopVars, refsIn >>
    /\ UNCHANGED walkVars

\* lines 169-177
ProcessDirIsOnDefault ==
    /\ pc = "isOnDefault"
    /\ \E fail \in BOOLEAN :
         LET res == GitSymbolicRefQuiet(repo, fail)
             onDefault == isOnDefault(res, branch)
         IN  /\ cmds' = Append(cmds, Cmd("symbolic-ref --quiet", <<>>, ~res.err, onDefault.val))
             /\ IF onDefault.err
                THEN Return("SkipDir", FailedProcessing)
                ELSE IF ~onDefault.val
                THEN Return("SkipDir", Line("fail", FALSE, Rel(Root, path), "not on default branch"))
                ELSE pc' = "isClean" /\ UNCHANGED << ret, out >>
    /\ UNCHANGED << cleanBranches, repo, branch, loopVars, refsIn >>
    /\ UNCHANGED walkVars

\* lines 179-187
ProcessDirIsClean ==
    /\ pc = "isClean"
    /\ \E fail \in BOOLEAN :
         LET res == GitStatus(repo, fail)
             clean == isClean(res)
         IN  /\ cmds' = Append(cmds, Cmd("status", <<>>, ~res.err, clean.val))
             /\ IF clean.err
                THEN Return("SkipDir", FailedProcessing)
                ELSE IF ~clean.val
                THEN Return("SkipDir", Line("fail", FALSE, Rel(Root, path), "not clean"))
                ELSE pc' = "pull" /\ UNCHANGED << ret, out >>
    /\ UNCHANGED << cleanBranches, repo, branch, loopVars, refsIn >>
    /\ UNCHANGED walkVars

\* the exit status of git pull ignored
pullIgnored(exitOk) == FALSE

\* pull (lines 85-90): the error of cmd.Run(), set when git exits non-zero
pull(exitOk) == ~exitOk

\* lines 189-197 (and 213 when the flag is off)
ProcessDirPull ==
    /\ pc = "pull"
    /\ \E exitOk \in BOOLEAN :
         /\ cmds' = Append(cmds, Cmd("pull", branch, exitOk, ~pull(exitOk)))
         /\ IF pull(exitOk)
            THEN Return("SkipDir", Line("fail", FALSE, Rel(Root, path), "fast forwarding not possible"))
            ELSE /\ out' = Append(out, Line("ok", FALSE, Rel(Root, path), "updated"))
                 /\ IF cleanBranches
                    THEN pc' = "localRefs" /\ ret' = ret
                    ELSE pc' = "ret" /\ ret' = "SkipDir"
    /\ UNCHANGED << cleanBranches, repo, branch, loopVars, refsIn >>
    /\ UNCHANGED walkVars

\* lines 198-204 (and 213 when there is nothing to prune)
ProcessDirLocalRefs ==
    /\ pc = "localRefs"
    /\ \E fail \in BOOLEAN, listing \in ListingsWith(repo.head) :
         LET res == GitForEachRef(listing, fail)
             r == localRefs(res, branch)
         IN  /\ cmds' = Append(cmds, Cmd("for-each-ref", <<>>, ~res.err, ~r.err))
             /\ IF r.err
                THEN /\ Return("SkipDir", Line("fail", TRUE, <<>>, "failed pruning orphaned branches"))
                     /\ UNCHANGED << lrfs, idx >>
                ELSE /\ lrfs' = r.val
                     /\ idx' = 1
                     /\ out' = out
                     /\ IF r.val = <<>>
                        THEN pc' = "ret" /\ ret' = "SkipDir"
                        ELSE pc' = "ask" /\ ret' = ret
    /\ UNCHANGED << cleanBranches, repo, branch, tries, answer, offered, refsIn >>
    /\ UNCHANGED walkVars

\* the loop left at the first deletion that fails
NextBranchStop(e) ==
    /\ idx' = idx + 1
    /\ tries' = 0
    /\ IF e \/ idx + 1 > Len(lrfs)
       THEN pc' = "ret" /\ ret' = "SkipDir"
       ELSE pc' = "ask" /\ ret' = ret

\* lines 204-213: after deleteBranch returned (e: with an error) the loop
\* takes the next branch of lrfs, or processDir returns
NextBranch(e) ==
    /\ idx' = idx + 1
    /\ tries' = 0
    /\ IF idx + 1 > Len(lrfs)
       THEN pc' = "ret" /\ ret' = "SkipDir"
       ELSE pc' = "ask" /\ ret' = ret

\* lines 206-210: the line processDir prints for the error deleteBranch returned
PruneLine(e, lrf) ==
    IF e THEN Line("fail", TRUE, lrf, "failed pruning orphaned branch")
    ELSE Line("ok", TRUE, lrf, "pruned orphaned branch")

\* deleteBranch, lines 127-130, one turn of the loop of askForConfirmation
\* (lines 30-45): the prompt is printed, a line is read; end of input is
\* log.Fatal; on "no" deleteBranch returns nil and processDir goes on at
\* line 206
DeleteBranchAsk ==
    /\ pc = "ask"
    /\ offered' = IF tries = 0 THEN Append(offered, lrfs[idx]) ELSE offered
    /\ \/ /\ fatal' = "stdin" /\ pc' = "done" /\ todo' = <<>>
          /\ UNCHANGED << ret, out, idx, tries, answer >>
       \/ \E response \in Responses :
            LET ok == askForConfirmation(response) IN
            /\ answer' = ToLower(TrimSpace(response))
            /\ UNCHANGED << fatal, todo >>
            /\ IF ok = "again"
               THEN /\ tries < MaxPrompts
                    /\ tries' = tries + 1
                    /\ UNCHANGED << pc, ret, out, idx >>
               ELSE IF ok = "true"
               THEN pc' = "delete" /\ UNCHANGED << ret, out, idx, tries >>
               ELSE /\ out' = Append(out, PruneLine(FALSE, lrfs[idx]))
                    /\ NextBranch(FALSE)
    /\ UNCHANGED << cleanBranches, repo, branch, cmds, lrfs, refsIn >>
    /\ UNCHANGED << path, entry, err, gitDirs >>

\* deleteBranch, lines 132-135, and processDir, lines 206-210
DeleteBranchRun ==
    /\ pc = "delete"
    /\ \E exitOk \in BOOLEAN :
         /\ cmds' = Append(cmds, Cmd("branch -D", lrfs[idx], exitOk, exitOk))
         /\ out' = Append(out, PruneLine(~exitOk, lrfs[idx]))
         /\ NextBranch(~exitOk)
    /\ UNCHANGED << cleanBranches, repo, branch, lrfs, answer, offered, refsIn >>
    /\ UNCHANGED walkVars

Next ==
    \/ WalkNext
    \/ ProcessDir
    \/ ProcessDirDefaultBranch
    \/ ProcessDirIsOnDefault
    \/ ProcessDirIsClean
    \/ ProcessDirPull
    \/ ProcessDirLocalRefs
    \/ DeleteBranchAsk
    \/ DeleteBranchRun
    \/ WalkReturn
    \/ WalkDone

Spec == Init /\ [][Next]_vars

(* ------------------- localRefs as a function of its input --------------- *)

\* the repositories localRefs is run on: their branch listing holds the
\* branch HEAD is on
InitRefs ==
    /\ refsIn \in Listings
    /\ branch \in { refsIn[i].name : i \in 1..Len(refsIn) }
    /\ pc = "localRefs"
    /\ cleanBranches = TRUE
    /\ todo = <<>> /\ path = Root /\ entry = [kind |-> "dir", dotGit |-> "ok"]
    /\ err = FALSE /\ ret = "none" /\ repo = NoRepo /\ out = <<>> /\ cmds = <<>>
    /\ lrfs = <<>> /\ idx = 0 /\ tries = 0 /\ answer = <<>> /\ offered = <<>>
    /\ gitDirs = {} /\ fatal = "none"

LocalRefsApply ==
    /\ pc = "localRefs"
    /\ lrfs' = localRefs(GitForEachRef(refsIn, FALSE), branch).val
    /\ pc' = "listed"
    /\ UNCHANGED << cleanBranches, todo, path, entry, err, ret, repo, branch, out, cmds,
                    idx, tries, answer, offered, gitDirs, fatal, refsIn >>

SpecRefs == InitRefs /\ [][LocalRefsApply]_vars

(* ------------------------------ properties ------------------------------ *)

Ran(name) == \E i \in DOMAIN cmds : cmds[i].cmd = name
Yes == { <<"y">>, <<"y","e","s">> }
No == { <<"n">>, <<"n","o">> }
CheckCmds == <<"symbolic-ref --short", "symbolic-ref --quiet", "status", "pull", "for-each-ref">>
IsPrefixOf(a, b) == Len(a) <= Len(b) /\ SubSeq(b, 1, Len(a)) = a

\* C1: git pull is run only as the fourth subprocess of a repository, after
\* defaultBranch succeeded, isOnDefault returned true and isClean returned
\* true, in this order; a check that fails or errs is the last subprocess run
\* for the repository and the repository returns skip with one failure line;
\* a working tree with pending changes is never pulled, and when isClean
\* finds it the one line printed is "not clean".
C1_PullAfterChecksInOrder ==
    /\ \A i \in DOMAIN cmds :
         /\ i <= Len(CheckCmds) => cmds[i].cmd = CheckCmds[i]
         /\ i > Len(CheckCmds) => cmds[i].cmd = "branch -D"
         /\ (i <= Len(CheckCmds) /\ i < Len(cmds)) =>
               /\ cmds[i].ok
               /\ cmds[i].val
    /\ \A i \in DOMAIN cmds :
         cmds[i].cmd = "pull" =>
            /\ i = 4
            /\ cmds[1].ok /\ cmds[1].val /\ cmds[1].arg = branch
            /\ cmds[2].ok /\ cmds[2].val
            /\ cmds[3].ok /\ cmds[3].val
            /\ cmds[i].arg = cmds[1].arg
    /\ (cmds # <<>> /\ Len(cmds) <= 4 /\ ~(cmds[Len(cmds)].ok /\ cmds[Len(cmds)].val)) =>
            /\ pc \in {"ret", "walk", "done"}
            /\ ret = "SkipDir"
            /\ Len(out) = 1 /\ out[1].mark = "fail"
    /\ repo.status # <<>> => ~Ran("pull")
    /\ (Len(cmds) = 3 /\ cmds[3].ok /\ repo.status # <<>>) =>
            out = << Line("fail", FALSE, Rel(Root, path), "not clean") >>

C1_Witness ==
    /\ Len(cmds) >= 4 /\ cmds[4].cmd = "pull"
    /\ repo.status = <<>>

\* C2: a repository whose HEAD is detached or on another branch than the
\* default branch of its remote is reported "not on default branch" and is
\* not pulled.
C2_OffDefaultNotPulled ==
    (repo # NoRepo /\ (repo.detached \/ repo.head # repo.originHead)) =>
        /\ ~Ran("pull")
        /\ pc = "ret" => out = << Line("fail", FALSE, Rel(Root, path), "not on default branch") >>

\* C3 as claimed: for every directory that holds a .git entry the visitor
\* returns the skip-subtree signal.
C3_GitDirAlwaysSkipDir ==
    (pc = "ret" /\ entry.kind = "dir" /\ entry.dotGit = "ok") => ret = "SkipDir"

\* C3 as amended: for every directory that holds a .git entry and that the
\* walker hands over without an error the visitor returns the skip-subtree
\* signal, whatever the outcome; and in every case no descendant of a
\* directory holding a .git entry is visited or waits to be visited.
C3_GitDirSkipped ==
    /\ (pc = "ret" /\ entry.kind = "dir" /\ entry.dotGit = "ok" /\ ~err) => ret = "SkipDir"
    /\ \A g \in gitDirs :
         /\ ~IsProperPrefix(g, path)
         /\ \A i \in DOMAIN todo : ~IsProperPrefix(g, todo[i])

C3_Witness ==
    /\ pc = "visit"
    /\ gitDirs # {} /\ path \notin gitDirs
    /\ ret = "none"

\* C4: when git pull exits non-zero the repository prints exactly one line,
\* the failure line "fast forwarding not possible", and nothing of the prune
\* step runs: no branch listing, no prompt, no deletion, also with -prune.
C4_RejectedPull ==
    (Len(cmds) >= 4 /\ ~cmds[4].ok) =>
        /\ out = << Line("fail", FALSE, Rel(Root, path), "fast forwarding not possible") >>
        /\ Len(cmds) = 4
        /\ offered = <<>> /\ lrfs = <<>>
        /\ ret = "SkipDir"

C4_Witness ==
    /\ cleanBranches
    /\ Len(cmds) = 4 /\ ~cmds[4].ok
    /\ pc = "ret"

\* the branches of a listing that have no upstream and are named neither
\* master nor b, in listing order
RECURSIVE Orphans(_, _)
Orphans(listing, b) ==
    IF listing = <<>> THEN <<>>
    ELSE (IF Head(listing).upstream = <<>> /\ Head(listing).name # Master /\ Head(listing).name # b
          THEN << Head(listing).name >> ELSE <<>>)
         \o Orphans(Tail(listing), b)

\* C5: localRefs returns exactly the branches of the listing that have no
\* upstream, are not named master and are not named as the default branch,
\* in listing order.
C5_ExactOrphans ==
    pc = "listed" => lrfs = Orphans(refsIn, branch)

\* C6: after the answer n or no to the prompt of a branch, git branch -D was
\* not run for that branch and no deletion-result line is printed for it.
C6_NoLeavesNoTrace ==
    (pc \in {"ask", "ret"} /\ tries = 0 /\ idx >= 2 /\ answer \in No) =>
        /\ \A i \in DOMAIN cmds : ~(cmds[i].cmd = "branch -D" /\ cmds[i].arg = lrfs[idx - 1])
        /\ \A i \in DOMAIN out : ~(out[i].tab /\ out[i].subject = lrfs[idx - 1])

\* C7 as claimed: for every directory without a .git entry the visitor prints
\* nothing, runs no git subprocess and returns the continue signal.
C7_PlainDirAlwaysContinues ==
    (pc = "ret" /\ entry.kind = "dir" /\ entry.dotGit = "notexist") =>
        out = <<>> /\ cmds = <<>> /\ ret = "nil"

\* C7 as amended: for every directory without a .git entry that the walker
\* hands over without an error, the visitor prints nothing, runs no git
\* subprocess and returns the continue signal, and the walk takes the names
\* of the directory next.
C7_PlainDirContinues ==
    /\ []((pc = "ret" /\ entry.kind = "dir" /\ entry.dotGit = "notexist" /\ ~err) =>
            out = <<>> /\ cmds = <<>> /\ ret = "nil")
    /\ [][(pc = "ret" /\ entry.kind = "dir" /\ entry.dotGit = "notexist" /\ ~err) =>
            (pc' = "walk" /\ todo' = Children(path) \o todo)]_vars

C7_Witness ==
    /\ pc = "visit"
    /\ path = Append(Root, "a")
    /\ gitDirs = {}

\* C8 as claimed: an error the walker hands to the visitor is reported and the
\* entry skipped; the error does not reach the top level and the run goes on.
C8_WalkErrorSkipped ==
    /\ (pc = "ret" /\ err) => (ret = "SkipDir" /\ Len(out) = 1)
    /\ fatal # "walk"

\* C8 as amended: the visitor returns an error the walker hands to it as it
\* is, printing nothing and running nothing; the walk ends there, the entries
\* left are not visited, and main ends the run with log.Fatal.
C8_WalkErrorAborts ==
    /\ []((pc = "ret" /\ err) => (ret = "err" /\ out = <<>> /\ cmds = <<>>))
    /\ [](fatal = "walk" => (pc = "done" /\ todo = <<>> /\ err))
    /\ [][(pc = "ret" /\ err) => fatal' = "walk"]_vars

C8_Witness ==
    /\ fatal = "walk"
    /\ path = Append(Root, "a")

\* C9: a failed deletion prints its own failure line and the loop goes on:
\* the branches of lrfs are offered one by one in order, all of them unless
\* the input ends; lines once printed stay, the "updated" line first; and
\* after the loop the walk goes on with the paths that were left.
C9_FailedDeletionGoesOn ==
    /\ [](IsPrefixOf(offered, lrfs))
    /\ []((pc \in {"ask", "delete"}) => (idx \in 1..Len(lrfs) /\ Len(offered) \in {idx - 1, idx}))
    /\ []((pc = "ret" /\ lrfs # <<>>) => (offered = lrfs /\ ret = "SkipDir"))
    /\ []((lrfs # <<>>) => out[1] = Line("ok", FALSE, Rel(Root, path), "updated"))
    /\ [][pc = "delete" =>
            /\ cmds'[Len(cmds')].cmd = "branch -D"
            /\ out' = Append(out, PruneLine(~cmds'[Len(cmds')].ok, lrfs[idx]))
            /\ idx < Len(lrfs) => (pc' = "ask" /\ idx' = idx + 1 /\ tries' = 0)
            /\ idx = Len(lrfs) => (pc' = "ret" /\ ret' = "SkipDir")]_vars
    /\ [][(pc = "ask" /\ tries = 0 /\ pc' # "ask") => offered' = Append(offered, lrfs[idx])]_vars
    /\ [][(pc = "ret" /\ ret = "SkipDir") => (pc' = "walk" /\ todo' = todo)]_vars

C9_Witness ==
    /\ Len(offered) = 2
    /\ \E i \in DOMAIN cmds : cmds[i].cmd = "branch -D" /\ ~cmds[i].ok /\ cmds[i].arg = lrfs[1]
    /\ pc = "ask"

\* C10: the prompt asks again as long as the trimmed, lower-cased answer is
\* none of y, yes, n, no; it gives true exactly on y and yes, false exactly on
\* n and no; git branch -D runs for a branch only after the prompt for that
\* same branch was answered y or yes.
C10_PromptDecides ==
    /\ [](pc = "delete" => (answer \in Yes /\ offered[Len(offered)] = lrfs[idx]))
    /\ [][(pc = "ask" /\ pc' # "done") =>
            /\ (answer' \in Yes) <=> (pc' = "delete" /\ idx' = idx)
            /\ (answer' \in No) <=> (idx' = idx + 1 /\ pc' \in {"ask", "ret"})
            /\ (answer' \notin (Yes \cup No)) <=> (pc' = "ask" /\ idx' = idx /\ tries' = tries + 1)]_vars
    /\ [][(Len(cmds') > Len(cmds) /\ cmds'[Len(cmds')].cmd = "branch -D") =>
            /\ pc = "delete" /\ answer \in Yes
            /\ cmds'[Len(cmds')].arg = lrfs[idx]
            /\ offered[Len(offered)] = lrfs[idx]]_vars

C10_Witness ==
    /\ pc = "delete"
    /\ tries > 0
    /\ answer = <<"y","e","s">>

====
